---- MODULE Spec2Model ----
(***************************************************************************)
(* Recursive-descent arithmetic parsers of level0:                         *)
(*   g2_parser.py  the extended grammar (+ - * / ^, unary minus, floats)   *)
(*   g1_parser.py  the minimal grammar  (+ - * /, integers)                *)
(*                                                                         *)
(* A text is a sequence of one-character strings.  A Parser object is the  *)
(* record [text, pos, current] plus four history fields that only count    *)
(* what the methods did (advs, noneAdvs, work, unclosed); no method reads  *)
(* them.                                                                   *)
(* Every method is an operator from the Parser record to the record after  *)
(* the call and the value returned or the exception raised.                *)
(*                                                                         *)
(* Numbers: a Python int is [k |-> "int", n, d |-> 1]; a Python float is   *)
(* [k |-> "float", n, d], the exact rational n/d in lowest terms: binary   *)
(* rounding of floats is not modelled.  Arithmetic on magnitudes beyond    *)
(* MaxMag, and a power with a non-integral exponent, end a call with the   *)
(* outcome "Unmodelled"; the texts drawn by the specifications that        *)
(* compare values never have it.                                           *)
(***************************************************************************)
EXTENDS Integers, Sequences, FiniteSets, TLC

VARIABLES text, text0, pos, current, advs, noneAdvs, work, unclosed, start,
          op, ret,
          expect, text2, ret2, ret1, session

vars == <<text, text0, pos, current, advs, noneAdvs, work, unclosed, start,
          op, ret,
          expect, text2, ret2, ret1, session>>

(***************************************************************************)
(* Bounds of the model.                                                    *)
(***************************************************************************)
\* longest text of the method-call specification Spec
MaxLen == 3
\* how far past the end of the text a caller's advance() is followed
MaxOver == 2
\* largest numerator or denominator the arithmetic is computed on
MaxMag == 30000

(***************************************************************************)
(* Characters.                                                             *)
(***************************************************************************)
\* Python's None: Parser.current at end of input, and a method's "no value"
None == "None"

Digits == {"0", "1", "2", "3", "4", "5", "6", "7", "8", "9"}

\* str.isdigit() on one character
isdigit(ch) == ch \in Digits

\* str.isspace() on one character
isspace(ch) == ch \in {" ", "\t"}

DigitVal(ch) ==
    CASE ch = "0" -> 0 [] ch = "1" -> 1 [] ch = "2" -> 2 [] ch = "3" -> 3
      [] ch = "4" -> 4 [] ch = "5" -> 5 [] ch = "6" -> 6 [] ch = "7" -> 7
      [] ch = "8" -> 8 [] ch = "9" -> 9

(***************************************************************************)
(* Values and outcomes.                                                    *)
(***************************************************************************)
Val(k, n, d) == [k |-> k, n |-> n, d |-> d]

\* a method returning None
NoneVal == Val("none", 0, 1)

\* a raised exception of class e
Raise(e) == Val(e, 0, 1)

IsNum(v) == v.k \in {"int", "float"}

IsExc(v) == v.k \in {"ParseError", "Exception", "TypeError",
                     "ZeroDivisionError", "Unmodelled"}

Abs(x) == IF x < 0 THEN -x ELSE x

\* the one element of a singleton: Only({e : x \in {v}}) is e with x standing
\* for the value v, which is computed once
Only(S) == CHOOSE x \in S : TRUE

RECURSIVE GCD(_, _)
GCD(a, b) == IF b = 0 THEN a ELSE GCD(b, a % b)

\* the rational n/d (d # 0) in lowest terms with a positive denominator
Rat(k, n, d) ==
    LET g == GCD(Abs(n), Abs(d))
        s == IF d < 0 THEN -1 ELSE 1
    IN  Val(k, s * (n \div g), Abs(d) \div g)

InRange(v) == Abs(v.n) <= MaxMag /\ v.d <= MaxMag

\* the result of an operator, or Unmodelled when it leaves the range
Ranged(v) == IF InRange(v) THEN v ELSE Raise("Unmodelled")

\* int op int is an int, anything else a float
Join(a, b) == IF a.k = "int" /\ b.k = "int" THEN "int" ELSE "float"

\* the operand check every binary operator starts with
Operands(a, b, v) ==
    IF ~IsNum(a) \/ ~IsNum(b) THEN Raise("TypeError")
    ELSE IF ~InRange(a) \/ ~InRange(b) THEN Raise("Unmodelled")
    ELSE v

\* -x
py_neg(a) ==
    IF ~IsNum(a) THEN Raise("TypeError") ELSE Val(a.k, -a.n, a.d)

\* left + right
py_add(a, b) ==
    Operands(a, b, Ranged(Rat(Join(a, b), a.n * b.d + b.n * a.d, a.d * b.d)))

\* left - right
py_sub(a, b) ==
    Operands(a, b, Ranged(Rat(Join(a, b), a.n * b.d - b.n * a.d, a.d * b.d)))

\* left * right
py_mul(a, b) ==
    Operands(a, b, Ranged(Rat(Join(a, b), a.n * b.n, a.d * b.d)))

\* left / right: true division, always a float
py_div(a, b) ==
    Operands(a, b,
        IF b.n = 0 THEN Raise("ZeroDivisionError")
        ELSE Ranged(Rat("float", a.n * b.d, a.d * b.n)))

\* x^e for naturals x, e, saturating just above MaxMag
RECURSIVE NatPow(_, _)
NatPow(x, e) ==
    IF e = 0 THEN 1
    ELSE IF x <= 1 THEN x
    ELSE IF e > 31 THEN MaxMag + 1
    ELSE LET r == NatPow(x, e - 1)
         IN  IF r > MaxMag THEN MaxMag + 1 ELSE r * x

\* left ** right
py_pow(a, b) ==
    Operands(a, b,
        IF b.d # 1 THEN Raise("Unmodelled")
        ELSE LET e    == Abs(b.n)
                 sgn  == IF a.n < 0 /\ e % 2 = 1 THEN -1 ELSE 1
                 pn   == NatPow(Abs(a.n), e)
                 pd   == NatPow(a.d, e)
                 kind == IF a.k = "int" /\ b.k = "int" /\ b.n >= 0
                         THEN "int" ELSE "float"
             IN  IF pn > MaxMag \/ pd > MaxMag THEN Raise("Unmodelled")
                 ELSE IF b.n >= 0 THEN Val(kind, sgn * pn, pd)
                 ELSE IF a.n = 0 THEN Raise("ZeroDivisionError")
                 ELSE Val(kind, sgn * pd, pn))

\* int(s) of a digit string
RECURSIVE py_int_digits(_, _)
py_int_digits(s, acc) ==
    IF s = <<>> THEN acc
    ELSE py_int_digits(Tail(s), 10 * acc + DigitVal(Head(s)))

py_int(s) == Val("int", py_int_digits(s, 0), 1)

\* 10^k
RECURSIVE Ten(_)
Ten(k) == IF k = 0 THEN 1 ELSE 10 * Ten(k - 1)

\* float(s) of digits with one decimal point
py_float(s) ==
    LET i     == CHOOSE j \in 1..Len(s) : s[j] = "."
        whole == SubSeq(s, 1, i - 1)
        frac  == SubSeq(s, i + 1, Len(s))
    IN  Rat("float", py_int_digits(whole \o frac, 0), Ten(Len(frac)))

(***************************************************************************)
(* g2_parser.Parser: the cursor.                                           *)
(***************************************************************************)
\* what text[pos] is, None at and past the end
CharAt(t, i) == IF i < Len(t) THEN t[i + 1] ELSE None

\* Parser(text)
NewParser(t) ==
    [text |-> t, pos |-> 0, current |-> IF t # <<>> THEN t[1] ELSE None,
     advs |-> 0, noneAdvs |-> 0, work |-> 0, unclosed |-> 0]

\* a method's return: the object after the call and the value or exception
Ret(p, r) == [p |-> p, r |-> r]

\* history only: one more loop iteration or recursive re-entry has begun
Tick(p) == [p EXCEPT !.work = @ + 1]

\* history only: primary() found no ")" after the expression of its "("
Miss(p) == [p EXCEPT !.unclosed = @ + 1]

\* advance() reading the character before it moves
advance_stale(p) ==
    [p EXCEPT !.pos = p.pos + 1,
              !.current = IF p.pos + 1 < Len(p.text)
                          THEN p.text[p.pos + 1] ELSE None,
              !.advs = @ + 1,
              !.noneAdvs = @ + (IF p.current = None THEN 1 ELSE 0)]

advance(p) ==
    [p EXCEPT !.pos = p.pos + 1,
              !.current = IF p.pos + 1 < Len(p.text)
                          THEN p.text[p.pos + 2] ELSE None,
              !.advs = @ + 1,
              !.noneAdvs = @ + (IF p.current = None THEN 1 ELSE 0)]

RECURSIVE skip_whitespace(_)
skip_whitespace(p) ==
    IF p.current # None /\ isspace(p.current)
    THEN skip_whitespace(Tick(advance(p)))
    ELSE p

(***************************************************************************)
(* g2_parser.Parser: the grammar rules.                                    *)
(***************************************************************************)
\* the while loop of number(): the object and the characters collected
RECURSIVE number_loop(_, _, _)
number_loop(p, result, has_dot) ==
    IF p.current # None /\ (isdigit(p.current) \/ p.current = ".")
    THEN IF p.current = "." /\ has_dot
         THEN [p |-> p, result |-> result, has_dot |-> has_dot]
         ELSE number_loop(Tick(advance(p)), Append(result, p.current),
                          has_dot \/ p.current = ".")
    ELSE [p |-> p, result |-> result, has_dot |-> has_dot]

\* number() returning 0 where no literal is found
number_zero(p) ==
    LET l == number_loop(skip_whitespace(p), <<>>, FALSE)
    IN  IF l.result = <<>> \/ l.result = <<".">> THEN Ret(l.p, Val("int", 0, 1))
        ELSE Ret(l.p, IF l.has_dot THEN py_float(l.result)
                      ELSE py_int(l.result))

number(p) ==
    LET l == number_loop(skip_whitespace(p), <<>>, FALSE)
    IN  IF l.result = <<>> \/ l.result = <<".">> THEN Ret(l.p, NoneVal)
        ELSE Ret(l.p, IF l.has_dot THEN py_float(l.result)
                      ELSE py_int(l.result))

RECURSIVE expression(_)

\* primary() consuming whatever follows the inner expression
primary_unchecked(p) ==
    LET p1 == skip_whitespace(p)
    IN  IF p1.current = "("
        THEN Only({(IF IsExc(e.r) THEN e
                    ELSE Ret(advance(skip_whitespace(e.p)), e.r))
                   : e \in {expression(Tick(advance(p1)))}})
        ELSE number(p1)

primary(p) ==
    LET p1 == skip_whitespace(p)
    IN  IF p1.current = "("
        THEN Only({(LET p2 == skip_whitespace(e.p)
                    IN  IF IsExc(e.r) THEN e
                        ELSE Ret(IF p2.current = ")" THEN advance(p2)
                                 ELSE Miss(p2), e.r))
                   : e \in {expression(Tick(advance(p1)))}})
        ELSE number(p1)

\* unary() testing for "-" without skipping whitespace first
RECURSIVE unary_noskip(_)
unary_noskip(p) ==
    IF p.current = "-"
    THEN Only({(IF IsExc(u.r) THEN u ELSE Ret(u.p, py_neg(u.r)))
               : u \in {unary_noskip(Tick(advance(p)))}})
    ELSE primary(p)

RECURSIVE unary(_)
unary(p) ==
    LET p1 == skip_whitespace(p)
    IN  IF p1.current = "-"
        THEN Only({(IF IsExc(u.r) THEN u ELSE Ret(u.p, py_neg(u.r)))
                   : u \in {unary(Tick(advance(p1)))}})
        ELSE primary(p1)

\* the right operand of "^" applied to the left one
exponent_apply(left, right) ==
    IF IsExc(right.r) THEN right ELSE Ret(right.p, py_pow(left.r, right.r))

\* exponent() parsing a single unary on the right of "^"
exponent_unary_rhs(p) ==
    Only({(LET p1 == skip_whitespace(left.p)
           IN  IF IsExc(left.r) THEN left
               ELSE IF p1.current = "^"
               THEN Only({exponent_apply(left, right)
                          : right \in {unary(Tick(advance(p1)))}})
               ELSE Ret(p1, left.r))
          : left \in {unary(p)}})

RECURSIVE exponent(_)
exponent(p) ==
    Only({(LET p1 == skip_whitespace(left.p)
           IN  IF IsExc(left.r) THEN left
               ELSE IF p1.current = "^"
               THEN Only({exponent_apply(left, right)
                          : right \in {exponent(Tick(advance(p1)))}})
               ELSE Ret(p1, left.r))
          : left \in {unary(p)}})

\* the while loop of term(), entered with the object and the value so far
RECURSIVE term_loop(_, _)
term_loop(p, left) ==
    LET p1 == skip_whitespace(p)
    IN  IF p1.current \in {"*", "/"}
        THEN Only({(IF IsExc(right.r) THEN right
                    ELSE Only({(IF IsExc(v) THEN Ret(right.p, v)
                                ELSE term_loop(right.p, v))
                               : v \in {IF p1.current = "*"
                                        THEN py_mul(left, right.r)
                                        ELSE py_div(left, right.r)}}))
                   : right \in {exponent(Tick(advance(p1)))}})
        ELSE Ret(p1, left)

term(p) ==
    Only({(IF IsExc(left.r) THEN left ELSE term_loop(left.p, left.r))
          : left \in {exponent(p)}})

\* the while loop of expression()
RECURSIVE expression_loop(_, _)
expression_loop(p, left) ==
    LET p1 == skip_whitespace(p)
    IN  IF p1.current \in {"+", "-"}
        THEN Only({(IF IsExc(right.r) THEN right
                    ELSE Only({(IF IsExc(v) THEN Ret(right.p, v)
                                ELSE expression_loop(right.p, v))
                               : v \in {IF p1.current = "+"
                                        THEN py_add(left, right.r)
                                        ELSE py_sub(left, right.r)}}))
                   : right \in {term(Tick(advance(p1)))}})
        ELSE Ret(p1, left)

expression(p) ==
    Only({(IF IsExc(left.r) THEN left ELSE expression_loop(left.p, left.r))
          : left \in {term(p)}})

parse(p) ==
    Only({(LET p1 == skip_whitespace(e.p)
           IN  IF IsExc(e.r) THEN e
               ELSE IF p1.current # None THEN Ret(p1, Raise("Exception"))
               ELSE Ret(p1, e.r))
          : e \in {expression(p)}})

(***************************************************************************)
(* g1_parser.Parser: the minimal grammar.  Its __init__, advance and       *)
(* skip_whitespace are the same code as g2_parser's.                       *)
(***************************************************************************)
\* match(expected): the object after the call and whether it matched
g1_match(p, expected) ==
    LET p1 == skip_whitespace(p)
    IN  IF p1.current = expected
        THEN [p |-> advance(p1), ok |-> TRUE]
        ELSE [p |-> p1, ok |-> FALSE]

\* the while loop of g1 number()
RECURSIVE g1_number_loop(_, _)
g1_number_loop(p, result) ==
    IF p.current # None /\ isdigit(p.current)
    THEN g1_number_loop(Tick(advance(p)), Append(result, p.current))
    ELSE [p |-> p, result |-> result]

g1_number(p) ==
    LET l == g1_number_loop(skip_whitespace(p), <<>>)
    IN  Ret(l.p, IF l.result # <<>> THEN py_int(l.result) ELSE NoneVal)

RECURSIVE g1_expression(_)

g1_factor(p) ==
    LET p1 == skip_whitespace(p)
    IN  IF p1.current = "("
        THEN Only({(LET m == g1_match(e.p, ")")
                    IN  IF IsExc(e.r) THEN e
                        ELSE IF ~m.ok THEN Ret(m.p, Raise("ParseError"))
                        ELSE Ret(m.p, e.r))
                   : e \in {g1_expression(Tick(advance(p1)))}})
        ELSE g1_number(p1)

\* the while loop of term_prime(), entered after a skip_whitespace()
RECURSIVE g1_term_prime_loop(_, _)
g1_term_prime_loop(p, left) ==
    IF p.current \in {"*", "/"}
    THEN Only({(IF IsExc(right.r) THEN right
                ELSE Only({(IF IsExc(v) THEN Ret(right.p, v)
                            ELSE g1_term_prime_loop(skip_whitespace(right.p), v))
                           : v \in {IF p.current = "*"
                                    THEN py_mul(left, right.r)
                                    ELSE py_div(left, right.r)}}))
               : right \in {g1_factor(Tick(advance(p)))}})
    ELSE Ret(p, left)

g1_term_prime(p, left) == g1_term_prime_loop(skip_whitespace(p), left)

g1_term(p) ==
    Only({(IF IsExc(left.r) THEN left ELSE g1_term_prime(left.p, left.r))
          : left \in {g1_factor(p)}})

\* the while loop of expression_prime(), entered after a skip_whitespace()
RECURSIVE g1_expression_prime_loop(_, _)
g1_expression_prime_loop(p, left) ==
    IF p.current \in {"+", "-"}
    THEN Only({(IF IsExc(right.r) THEN right
                ELSE Only({(IF IsExc(v) THEN Ret(right.p, v)
                            ELSE g1_expression_prime_loop(right.p, v))
                           : v \in {IF p.current = "+"
                                    THEN py_add(left, right.r)
                                    ELSE py_sub(left, right.r)}}))
               : right \in {g1_term(Tick(advance(p)))}})
    ELSE Ret(p, left)

g1_expression_prime(p, left) ==
    g1_expression_prime_loop(skip_whitespace(p), left)

g1_expression(p) ==
    Only({(IF IsExc(left.r) THEN left
           ELSE g1_expression_prime(left.p, left.r))
          : left \in {g1_term(p)}})

g1_parse(p) == g1_expression(p)

(***************************************************************************)
(* The Parser object as state, and one action per method call.             *)
(*   text, pos, current   the object's fields                              *)
(*   text0                the text the object was constructed with         *)
(*   advs                 advance() calls on the object since construction *)
(*   start, op, ret       the last call: pos before it, the method, and    *)
(*                        the value returned or exception raised           *)
(*   noneAdvs, work,      during the last call: advance() calls made while *)
(*   unclosed             current was None; loop iterations and recursive  *)
(*                        re-entries begun; "(" left without their ")"     *)
(*   expect               SpecEval: the reference value of the text        *)
(*   text2, ret2          SpecWs: the text with one more whitespace, and   *)
(*                        what parse returned or raised on it              *)
(*   ret1                 SpecG1: what g1_parser's parse returned or raised*)
(*   session              SpecRepl: main()'s loop                          *)
(***************************************************************************)
\* no call has returned yet
Pending == Val("pending", 0, 1)

\* all texts over alphabet A of length at most n
Texts(A, n) == UNION {[1..k -> A] : k \in 0..n}

Alphabet == {"1", ".", " ", "(", ")", "-", "^", "*", "/", "+"}

\* the object the next call is made on
Self ==
    [text |-> text, pos |-> pos, current |-> current,
     advs |-> advs, noneAdvs |-> 0, work |-> 0, unclosed |-> 0]

\* the state after method m returned res
Call(m, res) ==
    /\ text' = res.p.text
    /\ pos' = res.p.pos
    /\ current' = res.p.current
    /\ advs' = res.p.advs
    /\ noneAdvs' = res.p.noneAdvs
    /\ work' = res.p.work
    /\ unclosed' = res.p.unclosed
    /\ start' = pos
    /\ op' = m
    /\ ret' = res.r
    /\ UNCHANGED <<text0, expect, text2, ret2, ret1, session>>

Fresh(t) ==
    /\ text = t
    /\ text0 = t
    /\ pos = 0
    /\ current = NewParser(t).current
    /\ advs = 0
    /\ noneAdvs = 0
    /\ work = 0
    /\ unclosed = 0
    /\ start = 0
    /\ op = "new"
    /\ ret = Pending

\* the variables of the other specifications, unused
Unused ==
    /\ expect = Pending
    /\ text2 = <<>>
    /\ ret2 = Pending
    /\ ret1 = Pending
    /\ session = "none"

Init == \E t \in Texts(Alphabet, MaxLen) : Fresh(t) /\ Unused

AdvanceCall ==
    /\ pos < Len(text) + MaxOver
    /\ Call("advance", Ret(advance(Self), NoneVal))

SkipWhitespaceCall == Call("skip_whitespace", Ret(skip_whitespace(Self), NoneVal))

NumberCall == Call("number", number(Self))

PrimaryCall == Call("primary", primary(Self))

UnaryCall == Call("unary", unary(Self))

ExponentCall == Call("exponent", exponent(Self))

TermCall == Call("term", term(Self))

ExpressionCall == Call("expression", expression(Self))

ParseCall == Call("parse", parse(Self))

Next ==
    \/ AdvanceCall
    \/ SkipWhitespaceCall
    \/ NumberCall
    \/ PrimaryCall
    \/ UnaryCall
    \/ ExponentCall
    \/ TermCall
    \/ ExpressionCall
    \/ ParseCall

Spec == Init /\ [][Next]_vars

(***************************************************************************)
(* The reference evaluation of the five-level grammar, by generation: the  *)
(* well-formed texts of each length with their values, built from the      *)
(* grammar's productions                                                   *)
(*     primary    ::= literal | ( expression )                             *)
(*     unary      ::= - unary | primary                                    *)
(*     exponent   ::= unary | unary ^ exponent          (right to left)    *)
(*     term       ::= exponent | term [* /] exponent   (left to right)    *)
(*     expression ::= term | expression [+ -] term     (left to right)    *)
(* with any whitespace between tokens and around the whole.  It states     *)
(* what the claims compare the parser with; it is no part of the program.  *)
(***************************************************************************)
\* longest well-formed text of the evaluation specification
MaxExpr == 5

EvalDigits == {"0", "2", "3"}

Spaces(a) == [i \in 1..a |-> " "]

IsLitChar(ch) == isdigit(ch) \/ ch = "."

IsDot(ch) == ch = "."

\* digits with at most one decimal point and at least one digit
IsLiteral(s) ==
    /\ s # <<>>
    /\ \A i \in 1..Len(s) : IsLitChar(s[i])
    /\ Len(SelectSeq(s, IsDot)) <= 1
    /\ Len(SelectSeq(s, isdigit)) >= 1

\* the sum of digit * 10^place over a digit string
RECURSIVE PlaceSum(_, _)
PlaceSum(ds, i) ==
    IF i > Len(ds) THEN 0
    ELSE DigitVal(ds[i]) * Ten(Len(ds) - i) + PlaceSum(ds, i + 1)

\* the digits after the decimal point
FracLen(s) == Len(s) - (CHOOSE j \in 1..Len(s) : s[j] = ".")

\* the numerator and denominator a literal denotes
LitNum(s) == PlaceSum(SelectSeq(s, isdigit), 1)

LitDen(s) == IF Len(SelectSeq(s, IsDot)) = 0 THEN 1 ELSE Ten(FracLen(s))

LitKind(s) == IF Len(SelectSeq(s, IsDot)) = 0 THEN "int" ELSE "float"

LitValue(s) == Rat(LitKind(s), LitNum(s), LitDen(s))

RefNeg(a) == IF IsExc(a) THEN a ELSE py_neg(a)

RefApply(o, a, b) ==
    IF IsExc(a) THEN a
    ELSE IF IsExc(b) THEN b
    ELSE CASE o = "+" -> py_add(a, b)
           [] o = "-" -> py_sub(a, b)
           [] o = "*" -> py_mul(a, b)
           [] o = "/" -> py_div(a, b)
           [] o = "^" -> py_pow(a, b)

Modelled(S) == {q \in S : q[2].k # "Unmodelled"}

\* the literals of length n
RefLiterals(n) ==
    {<<s, LitValue(s)>> :
        s \in {x \in [1..n -> EvalDigits \cup {"."}] : IsLiteral(x)}}

\* ( E ) of length n, E of length m after a spaces
RefParen(Es, n, m, a) ==
    {<<(<<"(">> \o Spaces(a) \o e[1] \o Spaces(n - 2 - m - a) \o <<")">>),
       e[2]>> : e \in Es[m]}

\* - U of length n, U of length m
RefMinus(Us, n, m) ==
    {<<(<<"-">> \o Spaces(n - 1 - m) \o u[1]), RefNeg(u[2])>> : u \in Us[m]}

\* L op R of length n with the value of (L) op (R): L of length i, then a
\* spaces, the operator, spaces, and R of length j
RefBinary(L, R, ops, n, i, j, a) ==
    Modelled({<<l[1] \o Spaces(a) \o <<o>> \o Spaces(n - 1 - i - j - a) \o r[1],
                RefApply(o, l[2], r[2])>> : l \in L[i], r \in R[j], o \in ops})

\* where the operator and the operands of a binary production can stand
BinaryPlaces(n) ==
    {c \in (1..n) \X (1..n) \X (0..n) : c[1] + c[2] + c[3] + 1 <= n}

ParenPlaces(n) == {c \in (1..n) \X (0..n) : c[1] + c[2] + 2 <= n}

\* the texts of length n of each grammar level, given those of lengths < n
RefLevel(n, tab) ==
    LET Us == [m \in 1..(n - 1) |-> tab[m].unary]
        Xs == [m \in 1..(n - 1) |-> tab[m].exponent]
        Ts == [m \in 1..(n - 1) |-> tab[m].term]
        Es == [m \in 1..(n - 1) |-> tab[m].expression]
        P  == RefLiterals(n)
              \cup UNION {RefParen(Es, n, c[1], c[2]) : c \in ParenPlaces(n)}
        U  == P \cup UNION {RefMinus(Us, n, m) : m \in 1..(n - 1)}
        X  == U \cup UNION {RefBinary(Us, Xs, {"^"}, n, c[1], c[2], c[3])
                               : c \in BinaryPlaces(n)}
        T  == X \cup UNION {RefBinary(Ts, Xs, {"*", "/"}, n, c[1], c[2], c[3])
                               : c \in BinaryPlaces(n)}
        E  == T \cup UNION {RefBinary(Es, Ts, {"+", "-"}, n, c[1], c[2], c[3])
                               : c \in BinaryPlaces(n)}
    IN  [unary |-> U, exponent |-> X, term |-> T, expression |-> E]

RECURSIVE RefTable(_)
RefTable(tab) ==
    IF Len(tab) >= MaxExpr - 1 THEN tab
    ELSE RefTable(Append(tab, RefLevel(Len(tab) + 1, tab)))

\* the well-formed texts shorter than MaxExpr, by length and grammar level
RefTab == RefTable(<<>>)

RefUs == [m \in 1..(MaxExpr - 1) |-> RefTab[m].unary]

RefXs == [m \in 1..(MaxExpr - 1) |-> RefTab[m].exponent]

RefTs == [m \in 1..(MaxExpr - 1) |-> RefTab[m].term]

RefEs == [m \in 1..(MaxExpr - 1) |-> RefTab[m].expression]

\* the parser is constructed on the text of q with a and b spaces around
\* it; expect is q's reference value
InitOn(q, a, b) ==
    /\ Fresh(Spaces(a) \o q[1] \o Spaces(b))
    /\ expect = q[2]
    /\ text2 = <<>>
    /\ ret2 = Pending
    /\ ret1 = Pending
    /\ session = "none"

\* the well-formed texts of length n, production by production as in
\* RefLevel(n, RefTab), each with at most MaxExpr - n spaces around it
InitEval ==
    \E n \in 1..MaxExpr : \E a \in 0..(MaxExpr - n) : \E b \in 0..(MaxExpr - n - a) :
        \/ \E q \in RefLiterals(n) : InitOn(q, a, b)
        \/ \E c \in ParenPlaces(n) :
              \E q \in RefParen(RefEs, n, c[1], c[2]) : InitOn(q, a, b)
        \/ \E m \in 1..(n - 1) :
              \E q \in RefMinus(RefUs, n, m) : InitOn(q, a, b)
        \/ \E c \in BinaryPlaces(n) :
              \/ \E q \in RefBinary(RefUs, RefXs, {"^"}, n, c[1], c[2], c[3]) :
                    InitOn(q, a, b)
              \/ \E q \in RefBinary(RefTs, RefXs, {"*", "/"}, n, c[1], c[2], c[3]) :
                    InitOn(q, a, b)
              \/ \E q \in RefBinary(RefEs, RefTs, {"+", "-"}, n, c[1], c[2], c[3]) :
                    InitOn(q, a, b)

SpecEval == InitEval /\ [][ParseCall]_vars

\* C1: on a well-formed text, parse returns the value of the reference
\* evaluation under the five-level grammar (a division by zero of the
\* reference is the parser's ZeroDivisionError)
C1_ParseIsReference == (op = "parse" /\ start = 0) => ret = expect

C1_Witness ==
    /\ op = "parse"
    /\ text0 = <<"2", "^", "3", "^", "2">>
    /\ ret = Val("int", 512, 1)

(***************************************************************************)
(* Claims checked under Spec: every method called on every text, from      *)
(* every position a caller can bring the cursor to.                        *)
(***************************************************************************)
\* parse() was called on the newly constructed object
ParsedFresh == op = "parse" /\ start = 0

\* C2: when primary has consumed a "(" and finds no ")" after the inner
\* expression and whitespace, parse fails with ParseError
C2_UnclosedParenFails ==
    (ParsedFresh /\ unclosed > 0) => ret.k = "ParseError"

\* the top-level expression of t is parsed to a value and a non-whitespace
\* character is left
Trailing(t) ==
    \E e \in {expression(NewParser(t))} :
        IsNum(e.r) /\ skip_whitespace(e.p).current # None

\* C3: when the top-level expression has been parsed and a non-whitespace
\* character remains, parse fails with an error of kind ParseError
C3_TrailingIsParseError ==
    (ParsedFresh /\ Trailing(text0)) => ret.k = "ParseError"

\* C4: for every text, parse returns a numeric value or fails with
\* ParseError; it neither returns None nor feeds None to an operator
C4_ValueOrParseError ==
    ParsedFresh => (IsNum(ret) \/ ret.k = "ParseError")

\* C8: current is text[pos] while pos < len(text) and None from there on,
\* the text is the one the object was constructed with, and pos is the
\* number of advance() calls made on the object
C8_CursorInvariant ==
    /\ text = text0
    /\ current = CharAt(text, pos)
    /\ pos = advs

\* advance() called when the cursor was already past the end of the text
C8_Witness ==
    /\ op = "advance"
    /\ start > Len(text)
    /\ Len(text) = MaxLen
    /\ current = None

\* C10: a call of skip_whitespace or of a grammar rule never calls advance()
\* while current is None, never moves the cursor back or past the end of the
\* text, and begins no more loop iterations and recursive re-entries than
\* it advances over characters
C10_Progress ==
    (op \notin {"new", "advance"}) =>
        /\ noneAdvs = 0
        /\ start <= pos
        /\ start <= Len(text) => pos <= Len(text)
        /\ work <= pos - start

\* parse() consumed "(1)" whole: a re-entry, a loop iteration of number()
\* and the advance over ")"
C10_Witness ==
    /\ ParsedFresh
    /\ text = <<"(", "1", ")">>
    /\ pos = Len(text)
    /\ work = 2
    /\ IsNum(ret)

(***************************************************************************)
(* SpecLit: the method calls of Spec on texts of digits, decimal points,   *)
(* whitespace and an operator.                                             *)
(***************************************************************************)
\* longest text of SpecLit
MaxLit == 4

LitAlphabet == {"0", "7", ".", " ", "+"}

InitLit == \E t \in Texts(LitAlphabet, MaxLit) : Fresh(t) /\ Unused

SpecLit == InitLit /\ [][Next]_vars

\* the first position from i on that holds no whitespace (positions count
\* from 0, as pos does)
WsEnd(t, i) ==
    IF i >= Len(t) THEN i
    ELSE CHOOSE j \in i..Len(t) :
            /\ \A m \in i..(j - 1) : isspace(t[m + 1])
            /\ j = Len(t) \/ ~isspace(t[j + 1])

\* t[i..j) is digits and decimal points with at most one decimal point
IsRun(t, i, j) ==
    /\ \A m \in i..(j - 1) : IsLitChar(t[m + 1])
    /\ Cardinality({m \in i..(j - 1) : t[m + 1] = "."}) <= 1

\* the end of the longest such run from i
RunEnd(t, i) ==
    IF i >= Len(t) THEN i
    ELSE CHOOSE j \in i..Len(t) :
            IsRun(t, i, j) /\ (j = Len(t) \/ ~IsRun(t, i, j + 1))

\* v is the number the run denotes, with its type; None for a run without
\* a digit
Denotes(v, run) ==
    IF Len(SelectSeq(run, isdigit)) = 0 THEN v = NoneVal
    ELSE /\ v.k = LitKind(run)
         /\ v.d > 0
         /\ v.n * LitDen(run) = LitNum(run) * v.d

\* C6: number() skips whitespace, consumes the longest run of digits with at
\* most one decimal point and returns its value, an int without a point and
\* a float with one, or None for a run without a digit; and parse of a
\* literal returns the literal's value with that type
C6_NumberIsLiteralValue ==
    /\ op = "number" =>
          LET i == WsEnd(text, start)
              j == RunEnd(text, i)
          IN  pos = j /\ Denotes(ret, SubSeq(text, i + 1, j))
    /\ (ParsedFresh /\ IsLiteral(text)) =>
          (ret.k = LitKind(text) /\ Denotes(ret, text))

\* number() after whitespace stopped on a second decimal point
C6_Witness ==
    /\ op = "number"
    /\ text = <<" ", ".", "7", ".">>
    /\ start = 0
    /\ pos = 3
    /\ current = "."
    /\ ret = Val("float", 7, 10)

(***************************************************************************)
(* SpecWs: parse on a text and on the same text with one more whitespace   *)
(* character at a token boundary.                                          *)
(***************************************************************************)
\* longest text of SpecWs before the whitespace is added
MaxWs == 4

WsAlphabet == {"0", "3", ".", " ", "(", ")", "+", "-", "*", "/", "^"}

\* scanning the digits and points t[i..k+1] of one run greedily: whether a
\* new literal begins at t[k+1], that is with a second decimal point
RECURSIVE LiteralBreak(_, _, _, _)
LiteralBreak(t, i, k, seen) ==
    IF i = k + 1 THEN t[i] = "." /\ seen
    ELSE LiteralBreak(t, i + 1, k, t[i] = "." \/ (seen /\ ~(t[i] = ".")))

\* the first character of the run of digits and points that holds t[k]
RunStart(t, k) ==
    CHOOSE i \in 1..k :
        /\ \A m \in i..k : IsLitChar(t[m])
        /\ i = 1 \/ ~IsLitChar(t[i - 1])

\* a whitespace between t[k] and t[k+1] would split a literal
Splits(t, k) ==
    /\ k >= 1
    /\ k < Len(t)
    /\ IsLitChar(t[k])
    /\ IsLitChar(t[k + 1])
    /\ ~LiteralBreak(t, RunStart(t, k), k, FALSE)

Insert(t, k, ch) == SubSeq(t, 1, k) \o <<ch>> \o SubSeq(t, k + 1, Len(t))

InitWs == \E t \in Texts(WsAlphabet, MaxWs) : Fresh(t) /\ Unused

\* Parser(text).parse() on the newly constructed object
FirstParseCall == op = "new" /\ ParseCall

\* Parser(text2).parse(), text2 the text with a whitespace character added
\* after its first k characters
VariantParseCall ==
    /\ ret2 = Pending
    /\ \E k \in 0..Len(text) : \E ch \in {" ", "\t"} :
          /\ ~Splits(text, k)
          /\ text2' = Insert(text, k, ch)
          /\ ret2' = parse(NewParser(text2')).r
    /\ UNCHANGED <<text, text0, pos, current, advs, noneAdvs, work, unclosed,
                   start, op, ret, expect, ret1, session>>

NextWs == FirstParseCall \/ VariantParseCall

SpecWs == InitWs /\ [][NextWs]_vars

\* C7: adding a whitespace character before the first token, after the last
\* or between two tokens leaves the outcome of parse unchanged: the same
\* value, or the same failure
C7_WhitespaceInsensitive ==
    (ParsedFresh /\ ret2 # Pending) => ret = ret2

\* "-3^0" and "- 3^0": the whitespace after a unary minus
C7_Witness ==
    /\ ParsedFresh
    /\ text = <<"-", "3", "^", "0">>
    /\ text2 = <<"-", " ", "3", "^", "0">>
    /\ ret2 = Val("int", 1, 1)

(***************************************************************************)
(* SpecG1: the minimal and the extended parser on the same text.           *)
(***************************************************************************)
\* longest text of SpecG1
MaxG1 == 3

G1Alphabet == {"0", "2", " ", "(", ")", "+", "-", "*", "/"}

InitG1 == \E t \in Texts(G1Alphabet, MaxG1) : Fresh(t) /\ Unused

\* g1_parser.Parser(text).parse()
G1ParseCall ==
    /\ ret1 = Pending
    /\ ret1' = g1_parse(NewParser(text)).r
    /\ UNCHANGED <<text, text0, pos, current, advs, noneAdvs, work, unclosed,
                   start, op, ret, expect, text2, ret2, session>>

NextG1 == ParseCall \/ G1ParseCall

SpecG1 == InitG1 /\ [][NextG1]_vars

\* C9: where the minimal parser returns a number the extended parser
\* returns the same number, and where the minimal parser fails with
\* ParseError the extended parser fails too
C9_Supersedes ==
    (ParsedFresh /\ ret1 # Pending) =>
        /\ IsNum(ret1) => ret = ret1
        /\ ret1.k = "ParseError" => IsExc(ret)

(***************************************************************************)
(* SpecRepl: main(), the read-eval-print loop of g2_parser.                *)
(*   session   "running" inside the while loop, "eof" and "interrupt"      *)
(*             after its two break statements, "uncaught" when an          *)
(*             exception left main()                                       *)
(***************************************************************************)
\* longest input line of SpecRepl
MaxLine == 3

ReplAlphabet == {"0", "1", " ", "(", ")", "+", "/"}

InitRepl ==
    /\ Fresh(<<>>)
    /\ expect = Pending
    /\ text2 = <<>>
    /\ ret2 = Pending
    /\ ret1 = Pending
    /\ session = "running"

\* one iteration: input() returns a line, Parser(line).parse() is printed,
\* a ParseError is caught and printed
ReadLine ==
    /\ session = "running"
    /\ \E line \in Texts(ReplAlphabet, MaxLine) :
          \E res \in {parse(NewParser(line))} :
              /\ res.r.k # "Unmodelled"
              /\ text' = line
              /\ text0' = line
              /\ pos' = res.p.pos
              /\ current' = res.p.current
              /\ advs' = res.p.advs
              /\ noneAdvs' = res.p.noneAdvs
              /\ work' = res.p.work
              /\ unclosed' = res.p.unclosed
              /\ start' = 0
              /\ op' = "parse"
              /\ ret' = res.r
              /\ session' = IF IsExc(res.r) /\ res.r.k # "ParseError"
                            THEN "uncaught" ELSE "running"
    /\ UNCHANGED <<expect, text2, ret2, ret1>>

\* input() raises EOFError
EndOfInput ==
    /\ session = "running"
    /\ session' = "eof"
    /\ UNCHANGED <<text, text0, pos, current, advs, noneAdvs, work, unclosed,
                   start, op, ret, expect, text2, ret2, ret1>>

\* KeyboardInterrupt
Interrupt ==
    /\ session = "running"
    /\ session' = "interrupt"
    /\ UNCHANGED <<text, text0, pos, current, advs, noneAdvs, work, unclosed,
                   start, op, ret, expect, text2, ret2, ret1>>

NextRepl == ReadLine \/ EndOfInput \/ Interrupt

SpecRepl == InitRepl /\ [][NextRepl]_vars

\* C5: no line ends the session: the loop is left only on end of input or
\* an interrupt
C5_SessionSurvives == session \in {"running", "eof", "interrupt"}

====
